---- MODULE Spec2Model ----
(***************************************************************************)
(* State-machine model of the order / stock core of the e-commerce         *)
(* backend: the express handlers of src/models/Coupon.js (the app part of  *)
(* that file, lines 9-417) over the mongoose collections Product and       *)
(* Order (src/models/Order.js).                                            *)
(*                                                                         *)
(* Node runs one handler continuation at a time; a handler gives up the    *)
(* processor at every `await`.  Each action below is one store operation   *)
(* together with the synchronous code that follows it up to the next       *)
(* await, so any two requests interleave exactly at the await points.      *)
(***************************************************************************)
EXTENDS Integers, Sequences, FiniteSets, Bags, TLC

\* ------------------------------------------------------------------ bounds
MaxLoad == 4        \* requests (POST, PUT, DELETE, GET) plus line items per behaviour

\* ------------------------------------------------------------- input sets
Reqs == 1..MaxLoad
Users == {"u1", "u2"}
ProductIds == {"p1", "p2"}          \* ids of the products stored at the start
MissingId == "px"                    \* a well-formed id no product ever has
Qtys == {-1, 0, 1, 2}
\* The line items of a body sent by a client who knows, beside the initial
\* products, the created products `known`.
LineItems(known) ==
  [productId : {"p1"}, quantity : Qtys]
    \cup [productId : {"p2"}, quantity : {1, 2}]
    \cup [productId : known \cup {MissingId}, quantity : {1}]
CouponCodes == {"", "SAVE10"}        \* "" is an absent (falsy) couponCode
PutStocks == {0, 3}                  \* stock values of the administrative requests
PutPrices == {200}                   \* price values of the administrative requests

VARIABLES
  Product,    \* collection Product: id -> [stock, price] of the stored documents
  Order,      \* collection Order, in insertion order
  io,         \* the stockUpdate events emitted so far, in emission order
  req,        \* the POST /orders requests and their handlers' local state
  put,        \* the PUT /products/:id/stock handlers awaiting their update:
              \* the bag of their <<id, stock>>
  puts,       \* number of administrative requests (POST /products, PUT, DELETE) so far
  posts,      \* number of POST /products among them
  invoice,    \* the answer to the last GET /orders/:id/invoice
  gets,       \* number of GET requests so far
  listing     \* the answer to the last GET /orders

vars == <<Product, Order, io, req, put, puts, posts, invoice, gets, listing>>

\* The products POST /products has stored and that are still stored.
Created == (DOMAIN Product) \ ProductIds

\* The ids a request can name in its path: the initial products, the created
\* products stored when it is sent, and an id no product has.
ItemIds == ProductIds \cup Created \cup {MissingId}

\* The _id mongoose gives to the document of the next POST /products: an id
\* no document has had and no earlier request has named.
FreshId == "p" \o ToString(Cardinality(ProductIds) + 1 + posts)

\* ------------------------------------------------------------------ helpers
NoDoc == [found |-> FALSE, id |-> MissingId, stock |-> 0, price |-> 0, read |-> 0]

\* Product.findById(id): the stored document, or null.
findById(id) ==
  IF id \in DOMAIN Product
  THEN [found |-> TRUE, id |-> id, stock |-> Product[id].stock,
        price |-> Product[id].price, read |-> Product[id].stock]
  ELSE NoDoc

\* The guard of the stock loop: !prod || prod.stock < item.quantity
InsufficientStockOffByOne(prod, item) ==
  (~prod.found) \/ (prod.stock + 1 < item.quantity)

InsufficientStock(prod, item) ==
  (~prod.found) \/ (prod.stock < item.quantity)

\* prod.stock -= item.quantity
DecrementKeepsStock(prod, item) == prod

Decrement(prod, item) ==
  [prod EXCEPT !.stock = prod.stock - item.quantity]

\* prod.save(): mongoose writes the paths that were modified since the read,
\* here $set {stock}; a document whose stock was assigned its own value has no
\* modified path and nothing is written.
saveAddsDelta(db, prod) ==
  IF prod.stock # prod.read
  THEN [db EXCEPT ![prod.id].stock = db[prod.id].stock + (prod.stock - prod.read)]
  ELSE db

save(db, prod) ==
  IF prod.stock # prod.read
  THEN [db EXCEPT ![prod.id].stock = prod.stock]
  ELSE db

\* emitStockUpdate(productId, newStock), issued by request `by` (0: a PUT)
emitStockUpdate(events, productId, newStock, by) ==
  Append(events, [room |-> productId, stock |-> newStock, by |-> by])

\* total += prod.price * item.quantity
AddLineIgnoresQuantity(total, prod, item) == total + prod.price

AddLine(total, prod, item) == total + prod.price * item.quantity

\* The paths of orderSchema.  mongoose's strict mode keeps, of the object given
\* to `new Order(...)`, the keys that are paths of the schema and drops the rest.
OrderSchemaPaths == {"user", "products", "total", "coupon", "createdAt"}

NewOrder(fields, id) ==
  ("_id" :> id) @@ [k \in (DOMAIN fields) \cap OrderSchemaPaths |-> fields[k]]

\* String(order.userId): a path the document does not have reads as undefined.
UserIdString(doc) ==
  IF "userId" \in DOMAIN doc THEN doc.userId ELSE "undefined"

\* The input accepted so far, which MaxLoad caps: one unit for each request
\* and one for each line item of a POST /orders body.
RECURSIVE Units(_)
Units(n) ==
  IF n = 0 THEN 0
  ELSE (IF req[n].pc = "idle" THEN 0 ELSE 1 + Len(req[n].products)) + Units(n - 1)
Load == Units(MaxLoad) + puts + gets

\* A rejection inside the async handler, which has no try/catch.  What the
\* client sees depends on the express the app is installed with: express 4
\* does not observe the promise the handler returns and sends nothing
\* (status 0), express 5 passes the rejection to its default error handler,
\* which answers 500.  One run has one express: a second rejection ends as
\* the first did.
UnhandledStatus ==
  IF \E q \in Reqs : req[q].pc = "thrown"
  THEN {req[q].status : q \in {x \in Reqs : req[x].pc = "thrown"}}
  ELSE {0, 500}
Unhandled(rec, err) ==
  {[rec EXCEPT !.pc = "thrown", !.err = err, !.status = s, !.known = {}] :
      s \in UnhandledStatus}

\* The code after the stock loop up to `await order.save()`, for a request
\* whose body carries couponCode `code`.  A truthy couponCode
\* evaluates `Coupon.findOne`, and the app binds no identifier Coupon (it
\* requires User, Product, Order and Category only): the handler throws a
\* ReferenceError.
AfterLoop(rec, code) ==
  IF code # ""
  THEN Unhandled([rec EXCEPT !.couponCode = code], "ReferenceError")
  ELSE {[rec EXCEPT !.couponCode = code, !.pc = "orderSave", !.couponUsed = "",
                    !.known = {}]}

\* The head of `for (let item of products)` with i - 1 items consumed: the
\* body either holds a further item or ends, and then carries some couponCode
\* and the handler goes on to build the order.  The request is fixed when it
\* arrives; each part of it is drawn where it first has an effect.
LoopHead(rec, load) ==
  {[rec EXCEPT !.pc = "findById", !.products = Append(rec.products, item)] :
      item \in IF load < MaxLoad THEN LineItems(rec.known) ELSE {}}
  \cup UNION {AfterLoop(rec, code) : code \in CouponCodes}

IdleReq ==
  [pc |-> "idle", user |-> "", products |-> <<>>, couponCode |-> "",
   i |-> 0, total |-> 0, prod |-> NoDoc, couponUsed |-> "",
   status |-> 0, err |-> "", prices |-> <<>>, known |-> {}]

\* ------------------------------------------------------------------- Init
InitProduct ==
  [p \in ProductIds |-> IF p = "p1" THEN [stock |-> 2, price |-> 100]
                                    ELSE [stock |-> 1, price |-> 50]]

Init ==
  /\ Product = InitProduct
  /\ Order = <<>>
  /\ io = <<>>
  /\ req = [r \in Reqs |-> IdleReq]
  /\ put = EmptyBag
  /\ puts = 0
  /\ posts = 0
  /\ invoice = [status |-> 0, id |-> 0, mine |-> FALSE]
  /\ gets = 0
  /\ listing = [served |-> FALSE, ids |-> {}, mine |-> {}]

\* ------------------------------------------------------- POST /orders
\* Request r arrives: the handler runs to its first await.  The body was
\* written with the products stored at that moment in view.
PostOrders(r) ==
  /\ req[r].pc = "idle"
  /\ \A q \in Reqs : q < r => req[q].pc # "idle"
  /\ Load < MaxLoad
  /\ \E rec1 \in LoopHead([IdleReq EXCEPT !.total = 0, !.i = 1,
                                           !.known = Created], Load + 1) :
       req' = [req EXCEPT ![r] = rec1]
  /\ UNCHANGED <<Product, Order, io, put, puts, posts, invoice, gets, listing>>

\* return res.status(400).json({ error: ... }): the response is sent and the
\* handler returns from inside the loop.
RejectAndGoOn(rec) == [rec EXCEPT !.pc = "saved", !.status = 400]
Reject(rec) == [rec EXCEPT !.pc = "done", !.status = 400, !.known = {}]

\* `await Product.findById(item.productId)` completes; the guard is evaluated
\* and either the 400 is sent or the local document is decremented and its
\* save issued.  prices keeps the price each accepted line item was read at.
ReadItem(r) ==
  /\ req[r].pc = "findById"
  /\ LET rec  == req[r]
         item == rec.products[rec.i]
         doc  == findById(item.productId)
     IN  req' = [req EXCEPT ![r] =
                   IF InsufficientStock(doc, item)
                   THEN Reject(rec)
                   ELSE [rec EXCEPT !.pc = "save", !.prod = Decrement(doc, item),
                                    !.prices = Append(rec.prices,
                                                 Product[item.productId].price)]]
  /\ UNCHANGED <<Product, Order, io, put, puts, posts, invoice, gets, listing>>

\* The store applies the update of `await prod.save()`.  When the product
\* was deleted since the read, nothing is written, whether or not a path was
\* modified: mongoose then either rejects the save with DocumentNotFoundError
\* or, in the versions that do not check that the document is there, resolves
\* it.
SaveItem(r) ==
  /\ req[r].pc = "save"
  /\ IF req[r].prod.id \notin DOMAIN Product
     THEN /\ UNCHANGED Product
          /\ \/ req' = [req EXCEPT ![r].pc = "saved"]
             \/ \E rec \in Unhandled(req[r], "DocumentNotFoundError") :
                  req' = [req EXCEPT ![r] = rec]
     ELSE /\ Product' = save(Product, req[r].prod)
          /\ req' = [req EXCEPT ![r].pc = "saved"]
  /\ UNCHANGED <<Order, io, put, puts, posts, invoice, gets, listing>>

\* The handler resumes after the save: it emits, adds the line to the total
\* and goes to the next item, or leaves the loop; `prod` is scoped to the
\* iteration.
AfterSave(r) ==
  /\ req[r].pc = "saved"
  /\ LET rec  == req[r]
         item == rec.products[rec.i]
         rec1 == [rec EXCEPT !.total = AddLine(rec.total, rec.prod, item),
                             !.i = rec.i + 1, !.prod = NoDoc]
     IN  /\ io' = emitStockUpdate(io, item.productId, rec.prod.stock, r)
         /\ \E rec2 \in LoopHead(rec1, Load) : req' = [req EXCEPT ![r] = rec2]
  /\ UNCHANGED <<Product, Order, put, puts, posts, invoice, gets, listing>>

\* req.user.id of a request whose order is being stored.  User ids are
\* opaque tokens that the handlers only compare for equality, so the user
\* whose order is stored first is the one named "u1"; every later order, and
\* every GET, is sent by either user.
Callers == IF Order = <<>> THEN {"u1"} ELSE Users

\* The insert `order.save()` performs on a new document: the collection
\* gains the document and keeps the ones it has.
insertOrderRewritesTotals(orders, entry) ==
  [k \in 1..(Len(orders) + 1) |->
     IF k <= Len(orders) THEN [orders[k] EXCEPT !.doc.total = entry.doc.total]
     ELSE entry]
insertOrder(orders, entry) == Append(orders, entry)

\* The store applies the insert of `await order.save()`.  The order is built
\* from req.user.id (the authenticated caller u), the line items, the total
\* and the coupon used.  Beside the stored document, Order keeps which
\* request created it.  The handler is still suspended at the await.
OrderSave(r) ==
  /\ req[r].pc = "orderSave"
  /\ \E u \in Callers :
       LET rec == req[r]
           doc == NewOrder([userId |-> u, products |-> rec.products,
                            total |-> rec.total, coupon |-> rec.couponUsed],
                           Len(Order) + 1)
       IN  /\ Order' = insertOrder(Order, [doc |-> doc, req |-> r])
           /\ req' = [req EXCEPT ![r].pc = "orderSaved", ![r].user = u]
  /\ UNCHANGED <<Product, io, put, puts, posts, invoice, gets, listing>>

\* The handler resumes after the insert:
\* res.json({ message: "Order placed", order })
AfterOrderSave(r) ==
  /\ req[r].pc = "orderSaved"
  /\ req' = [req EXCEPT ![r].pc = "done", ![r].status = 200]
  /\ UNCHANGED <<Product, Order, io, put, puts, posts, invoice, gets, listing>>

\* `await order.save()` rejects (the store fails): the handler throws.
OrderSaveFails(r) ==
  /\ req[r].pc = "orderSave"
  /\ \E rec \in Unhandled(req[r], "OrderSaveError") : req' = [req EXCEPT ![r] = rec]
  /\ UNCHANGED <<Product, Order, io, put, puts, posts, invoice, gets, listing>>

\* --------------------------------------------------- POST /products
\* new Product({name, description, price, stock}); await product.save(): the
\* collection gains a document under a fresh id.
PostProducts ==
  /\ Load < MaxLoad
  /\ puts' = puts + 1
  /\ posts' = posts + 1
  /\ \E pr \in PutPrices, v \in PutStocks :
       Product' = Product @@ (FreshId :> [stock |-> v, price |-> pr])
  /\ UNCHANGED <<Order, io, req, put, invoice, gets, listing>>

\* ------------------------------------------- PUT /products/:id/stock
\* findByIdAndUpdate(id, {stock}, {new: true}); an unknown id is answered 404.
\* The handler then awaits the update; any number of them may be doing so.
PutStockUpdate ==
  /\ Load < MaxLoad
  /\ puts' = puts + 1
  /\ \E id \in ItemIds, v \in PutStocks :
       IF id \in DOMAIN Product
       THEN /\ Product' = [Product EXCEPT ![id].stock = v]
            /\ put' = put (+) SetToBag({<<id, v>>})
       ELSE UNCHANGED <<Product, put>>
  /\ UNCHANGED <<Order, io, req, posts, invoice, gets, listing>>

\* One of the handlers resumes: emitStockUpdate(req.params.id, stock);
\* res.json(product)
PutStockEmit ==
  /\ \E k \in BagToSet(put) :
       /\ io' = emitStockUpdate(io, k[1], k[2], 0)
       /\ put' = put (-) SetToBag({k})
  /\ UNCHANGED <<Product, Order, req, puts, posts, invoice, gets, listing>>

\* ------------------------------------------------- PUT /products/:id
\* findByIdAndUpdate(id, {name, description, price, stock}); nothing is emitted.
PutProduct ==
  /\ Load < MaxLoad
  /\ puts' = puts + 1
  /\ \E id \in ItemIds, pr \in PutPrices, v \in PutStocks :
       IF id \in DOMAIN Product
       THEN Product' = [Product EXCEPT ![id] = [stock |-> v, price |-> pr]]
       ELSE UNCHANGED Product
  /\ UNCHANGED <<Order, io, req, put, posts, invoice, gets, listing>>

\* ----------------------------------------------- DELETE /products/:id
\* Product.findByIdAndDelete(id): the product leaves the collection.  Nothing
\* else is touched, orders included.
DeleteProduct ==
  /\ Load < MaxLoad
  /\ puts' = puts + 1
  /\ \E id \in ItemIds :
       Product' = [p \in (DOMAIN Product) \ {id} |-> Product[p]]
  /\ UNCHANGED <<Order, io, req, put, posts, invoice, gets, listing>>

\* ------------------------------------------- GET /orders/:id/invoice
\* Order.findById(id), then !order || String(order.userId) !== req.user.id.
\* mine keeps whether the order existed and the caller had placed it.
GetInvoice ==
  /\ Load < MaxLoad
  /\ gets' = gets + 1
  /\ \E u \in Users, id \in 1..(Len(Order) + 1) :
       LET found == id <= Len(Order)
       IN  invoice' =
             [status |-> IF (~found) \/ UserIdString(Order[id].doc) # u
                         THEN 403 ELSE 200,
              id |-> id,
              mine |-> found /\ req[Order[id].req].user = u]
  /\ UNCHANGED <<Product, Order, io, req, put, puts, posts, listing>>

\* ------------------------------------------------------- GET /orders
\* Order.find({ userId: req.user.id }): the _ids of the documents matching
\* `filter`, a set of [path, value] conditions.
find(filter) ==
  {Order[k].doc._id : k \in {j \in 1..Len(Order) :
      \A c \in filter : c.path \in DOMAIN Order[j].doc
                           /\ Order[j].doc[c.path] = c.value}}

\* The filter as mongoose sends it.  userId is no path of orderSchema: with
\* strictQuery off (mongoose 5, 7 and later) the condition is sent as written,
\* with strictQuery on (mongoose 6) it is dropped from the filter.  The
\* version the app runs with is not fixed by the source, so either may happen.
castFilter(filter) ==
  {filter, {c \in filter : c.path \in OrderSchemaPaths}}

\* mine keeps the orders the caller had placed when the request was served.
GetOrders ==
  /\ Load < MaxLoad
  /\ gets' = gets + 1
  /\ \E u \in Users : \E f \in castFilter({[path |-> "userId", value |-> u]}) :
       listing' = [served |-> TRUE, ids |-> find(f),
                   mine |-> {Order[k].doc._id : k \in {j \in 1..Len(Order) :
                                req[Order[j].req].user = u}}]
  /\ UNCHANGED <<Product, Order, io, req, put, puts, posts, invoice>>

Next ==
  \/ \E r \in Reqs : PostOrders(r)
  \/ \E r \in Reqs : ReadItem(r)
  \/ \E r \in Reqs : SaveItem(r)
  \/ \E r \in Reqs : AfterSave(r)
  \/ \E r \in Reqs : OrderSave(r)
  \/ \E r \in Reqs : AfterOrderSave(r)
  \/ \E r \in Reqs : OrderSaveFails(r)
  \/ PutStockUpdate
  \/ PutStockEmit
  \/ PostProducts
  \/ PutProduct
  \/ DeleteProduct
  \/ GetInvoice
  \/ GetOrders

Spec == Init /\ [][Next]_vars

\* =================================================================== claims
Begun == {r \in Reqs : req[r].pc # "idle"}
Finished(r) == req[r].pc \in {"done", "thrown"}
Placed(r) == \E k \in 1..Len(Order) : Order[k].req = r
InitStock(p) == InitProduct[p].stock

\* Request r has run with no other request beside it since the system started.
Alone(r) ==
  /\ req[r].pc # "idle"
  /\ puts = 0
  /\ \A q \in Reqs \ {r} : req[q].pc = "idle"

\* Every line item of r read so far orders a positive quantity.
Positive(r) ==
  \A k \in 1..Len(req[r].products) : req[r].products[k].quantity > 0

\* The quantity the first n line items order of product p.
RECURSIVE QtySum(_, _, _)
QtySum(items, p, n) ==
  IF n = 0 THEN 0
  ELSE (IF items[n].productId = p THEN items[n].quantity ELSE 0)
         + QtySum(items, p, n - 1)

\* Sum over the first n line items of (price read x quantity).
RECURSIVE Subtotal(_, _, _)
Subtotal(prices, items, n) ==
  IF n = 0 THEN 0
  ELSE prices[n] * items[n].quantity + Subtotal(prices, items, n - 1)

\* The quantity of p the successful requests among 1..n ordered.
RECURSIVE Sold(_, _)
Sold(p, n) ==
  IF n = 0 THEN 0
  ELSE (IF req[n].status = 200
        THEN QtySum(req[n].products, p, Len(req[n].products)) ELSE 0)
         + Sold(p, n - 1)

\* The single-item requests of `order`, run one after another on stock s:
\* the ones that succeed.
RECURSIVE SerialWinners(_, _)
SerialWinners(order, s) ==
  IF order = <<>> THEN {}
  ELSE LET r == Head(order)
           q == req[r].products[1].quantity
       IN  IF s < q THEN SerialWinners(Tail(order), s)
           ELSE {r} \cup SerialWinners(Tail(order), s - q)

Orderings(B) ==
  {f \in [1..Cardinality(B) -> B] : \A i, j \in 1..Cardinality(B) : f[i] = f[j] => i = j}

\* ---------------------------------------------------------------- C1
\* C1 (as claimed): when single-item POST /orders requests for positive
\* quantities of product p1 have all been answered, with no PUT request in
\* the behaviour, the requests that succeeded are those some serial execution
\* lets succeed, they ordered no more than the initial stock, and the stock
\* is the initial stock minus what they ordered.
C1_ConcurrentOrdersSerializable ==
  ( /\ puts = 0
    /\ \A r \in Begun :
         /\ req[r].pc = "done"
         /\ Len(req[r].products) = 1
         /\ req[r].products[1].productId = "p1"
         /\ req[r].products[1].quantity > 0 )
  => /\ \E f \in Orderings(Begun) :
          SerialWinners(f, InitStock("p1")) = {r \in Begun : req[r].status = 200}
     /\ Sold("p1", MaxLoad) <= InitStock("p1")
     /\ Product["p1"].stock = InitStock("p1") - Sold("p1", MaxLoad)

\* ---------------------------------------------------------------- C2
\* C2 (as claimed): a request for positive quantities that ran alone and was
\* answered 400 at some line item leaves the stock of every product as it was
\* before the request.
C2_FailedOrderRestoresStock ==
  \A r \in Reqs :
    (Alone(r) /\ Positive(r) /\ req[r].pc = "done" /\ req[r].status = 400)
      => \A p \in ProductIds : Product[p].stock = InitStock(p)

\* ---------------------------------------------------------------- C3
\* C3: in every reachable state the stored stock of every product is >= 0,
\* under every interleaving of POST /orders requests and PUT requests that
\* set non-negative stocks.
C3_StockNeverNegative ==
  \A p \in DOMAIN Product : Product[p].stock >= 0

\* Two requests raced on p1 and both succeeded, ordering more than there was.
C3_Witness ==
  \E r, q \in Reqs :
    /\ r # q
    /\ req[r].status = 200 /\ req[q].status = 200
    /\ Sold("p1", MaxLoad) > InitStock("p1")
    /\ puts = 0
    /\ \A x \in {r, q} : \A k \in 1..Len(req[x].products) :
         req[x].products[k].quantity > 0

\* ---------------------------------------------------------------- C4
\* C4: every line item of a request is checked when the request reaches it.
\* When it names a product that does not exist, or a quantity greater than
\* the product's stored stock at the time of the read, the request is
\* answered 400 in that step and the step adds no order and changes no
\* stock; the request goes on to the item's save only when the product
\* exists and has the quantity in stock.  An Order record is stored only
\* for a request every line item of which was read and accepted, so a
\* request answered 400 has no Order record, neither then nor later, and a
\* request with an Order record is never answered 400.  A single-item
\* request that ran alone and was answered 400 leaves every stock as it was.
C4_RejectedWithoutOrder ==
  /\ [][\A r \in Reqs :
          /\ (req[r].pc = "findById" /\ req'[r] # req[r])
               => LET item == req[r].products[req[r].i]
                      bad  == \/ item.productId \notin DOMAIN Product
                              \/ item.quantity > Product[item.productId].stock
                  IN  /\ bad => /\ req'[r].pc = "done"
                                /\ req'[r].status = 400
                                /\ Order' = Order
                                /\ Product' = Product
                      /\ (~bad) => /\ req'[r].pc = "save"
                                   /\ req'[r].status = 0
          /\ req[r].status = 400
               => /\ req'[r].status = 400
                  /\ \A k \in 1..Len(Order') : Order'[k].req # r
          /\ (\E k \in 1..Len(Order') : Order'[k].req = r)
               => req'[r].status \in {0, 200}]_vars
  /\ [](\A r \in Reqs :
          /\ Placed(r)
               => /\ req[r].pc \in {"orderSaved", "done"}
                  /\ req[r].status \in {0, 200}
                  /\ req[r].i = Len(req[r].products) + 1
                  /\ Len(req[r].prices) = Len(req[r].products)
          /\ req[r].status = 400
               => /\ ~Placed(r)
                  /\ req[r].pc = "done"
                  /\ Len(req[r].prices) = Len(req[r].products) - 1
                  /\ (Alone(r) /\ Len(req[r].products) = 1)
                       => \A p \in ProductIds : Product[p].stock = InitStock(p))

\* A single-item request for more of an existing product than is in stock
\* has been answered 400 while the order of another request is stored.
C4_Witness ==
  \E r \in Reqs :
    /\ req[r].status = 400
    /\ Len(req[r].products) = 1
    /\ req[r].products[1].productId \in DOMAIN Product
    /\ req[r].products[1].quantity > Product[req[r].products[1].productId].stock
    /\ Order # <<>>
    /\ ~Placed(r)

\* ---------------------------------------------------------------- C5
\* C5: every persisted order's total is the sum over its line items of
\* (price read for that line item x quantity), whatever happens to the
\* product's price afterwards; no order carries a coupon, so the discount
\* factor is 1 for every order the code persists.
C5_TotalFromPricesRead ==
  \A k \in 1..Len(Order) :
    LET doc == Order[k].doc
        rec == req[Order[k].req]
    IN  /\ doc.coupon = ""
        /\ Len(rec.prices) = Len(doc.products)
        /\ doc.total = Subtotal(rec.prices, doc.products, Len(doc.products))

\* An order is stored whose product has changed price since the order read it.
C5_Witness ==
  \E k \in 1..Len(Order) :
    LET doc == Order[k].doc
        rec == req[Order[k].req]
    IN  /\ Len(doc.products) >= 1
        /\ doc.products[1].quantity > 0
        /\ doc.products[1].productId \in DOMAIN Product
        /\ Product[doc.products[1].productId].price # rec.prices[1]
        /\ doc.total > 0

\* ---------------------------------------------------------------- C6
\* C6 (as claimed): a request with at least one line item, all of positive
\* quantity and all passing the stock check, whose couponCode names no coupon
\* ends with the success response and a stored order with an empty coupon
\* field and the undiscounted total (the Order Store itself not failing).
C6_UnknownCouponOrderPlaced ==
  \A r \in Reqs :
    ( /\ req[r].couponCode # "" /\ Finished(r) /\ req[r].err # "OrderSaveError"
      /\ req[r].products # <<>> /\ Positive(r) )
      => /\ req[r].status = 200
         /\ \E k \in 1..Len(Order) :
              /\ Order[k].req = r
              /\ Order[k].doc.coupon = ""
              /\ Order[k].doc.total =
                   Subtotal(req[r].prices, req[r].products, Len(req[r].products))

\* ---------------------------------------------------------------- C7
\* C7 (as claimed): every stock-update event a POST /orders request (for
\* positive quantities) emitted was emitted after that request's Order record
\* was stored, so a request with no stored order has emitted nothing.
C7_NotifiedOnlyAfterPersisted ==
  \A k \in 1..Len(io) :
    (io[k].by # 0 /\ Positive(io[k].by)) => Placed(io[k].by)

\* ---------------------------------------------------------------- C8
\* C8: after a request that ran alone has succeeded, every product's stock is
\* its initial stock minus the quantities the request ordered of it, and the
\* events emitted are exactly one per line item, in order, each carrying the
\* product's stock right after that line item's decrement.
C8_SoloOrderStockAndEvents ==
  \A r \in Reqs :
    (Alone(r) /\ req[r].status = 200)
      => LET items == req[r].products
         IN  /\ \A p \in ProductIds :
                  Product[p].stock = InitStock(p) - QtySum(items, p, Len(items))
             /\ Len(io) = Len(items)
             /\ \A k \in 1..Len(items) :
                  io[k] = [room |-> items[k].productId,
                           stock |-> InitStock(items[k].productId)
                                       - QtySum(items, items[k].productId, k),
                           by |-> r]

\* A request that ran alone succeeded with two line items of one product.
C8_Witness ==
  \E r \in Reqs :
    /\ Alone(r) /\ req[r].status = 200
    /\ Len(req[r].products) >= 2
    /\ req[r].products[1].productId = req[r].products[2].productId
    /\ req[r].products[1].quantity > 0 /\ req[r].products[2].quantity > 0

\* ---------------------------------------------------------------- C9
\* C9 (as claimed): a request whose line-item list is empty, or holds a line
\* item with a quantity <= 0, is, when answered, answered 400, stores no
\* order and, when it ran alone, leaves every stock as it was.
C9_InvalidLineItemsRejected ==
  \A r \in Reqs :
    ( /\ req[r].pc = "done"
      /\ \/ req[r].products = <<>>
         \/ \E k \in 1..Len(req[r].products) : req[r].products[k].quantity <= 0 )
      => /\ req[r].status = 400
         /\ ~Placed(r)
         /\ Alone(r) => \A p \in ProductIds : Product[p].stock = InitStock(p)

\* ---------------------------------------------------------------- C10
\* C10 (as claimed): GET /orders/:id/invoice is answered with the invoice
\* exactly when the order exists and the caller placed it, and with 403
\* otherwise (stated for requests that name no order or an order of positive
\* quantities).
C10_InvoiceIffOwner ==
  ( /\ invoice.status # 0
    /\ invoice.id <= Len(Order) =>
         LET items == Order[invoice.id].doc.products
         IN  items # <<>> /\ \A k \in 1..Len(items) : items[k].quantity > 0 )
  => /\ invoice.status \in {200, 403}
     /\ (invoice.status = 200) <=> invoice.mine

\* ---------------------------------------------------------------- C11
\* C11 (as claimed): GET /orders issued by user u returns exactly the orders
\* u had placed: each of them, and no order of another user.
C11_ListsExactlyOwnOrders ==
  ( /\ listing.served
    /\ \A k \in 1..Len(Order) :
         LET items == Order[k].doc.products
         IN  items # <<>> /\ \A j \in 1..Len(items) : items[j].quantity > 0 )
  => listing.ids = listing.mine

\* ---------------------------------------------------------------- C12
\* No handler is between two of its steps.
Quiescent ==
  /\ put = EmptyBag
  /\ \A r \in Reqs : req[r].pc \in {"idle", "done", "thrown"}

\* C12 (as claimed): every change of a product's stored stock, by PUT
\* /products/:id/stock, by PUT /products/:id or by an order, is followed by
\* an event on the product's room carrying the new stock; so once every
\* handler has ended, a product stored since the start whose stock differs
\* from its initial stock has had an event carrying the stock it now has.
C12_StockChangeNotified ==
  Quiescent =>
    \A p \in ProductIds \cap DOMAIN Product :
      Product[p].stock # InitStock(p)
        => \E k \in 1..Len(io) : io[k].room = p /\ io[k].stock = Product[p].stock

\* ---------------------------------------------------------------- C13
\* C13 (as claimed): every POST /orders is answered, with the success body or
\* an error body, also when a store operation fails part-way: a handler that
\* has ended, here after `order.save()` failed for an order of valid line
\* items and no coupon placed with no other request beside it, has sent a
\* response.
C13_EveryRequestAnswered ==
  \A r \in Reqs :
    ( /\ Alone(r) /\ Finished(r) /\ Positive(r) /\ req[r].products # <<>>
      /\ req[r].err # "ReferenceError" )
      => req[r].status \in {200, 400, 500}

\* ---------------------------------------------------------------- C14
\* The events the PUT /products/:id/stock handlers have emitted.
PutEvents == SelectSeq(io, LAMBDA e : e.by = 0)

\* C14 (as claimed): one PUT /products/p1/stock to v and one POST /orders of
\* a single line item (p1, q), q > 0, in any interleaving, leave p1 with the
\* stock of one of the two serial orders: v (order, then set; or set, then
\* the order rejected) or v - q (set, then order); never the stale s - q.
C14_SetAndOrderSerializable ==
  \A r \in Reqs :
    ( /\ Quiescent /\ Begun = {r}
      /\ puts = 1 /\ Len(PutEvents) = 1 /\ PutEvents[1].room = "p1"
      /\ req[r].pc = "done"
      /\ Len(req[r].products) = 1
      /\ req[r].products[1].productId = "p1"
      /\ req[r].products[1].quantity > 0 )
    => LET v == PutEvents[1].stock
           q == req[r].products[1].quantity
       IN  Product["p1"].stock \in {v} \cup (IF v >= q THEN {v - q} ELSE {})

\* ---------------------------------------------------------------- C15
\* C15: a stored order is never altered or removed.  No step of the system
\* (a further order, a change of a product's price or stock, the deletion of
\* a product) shortens the Order collection or changes the document of an
\* order it holds.
C15_OrdersNeverChange ==
  [][ /\ Len(Order') >= Len(Order)
      /\ \A k \in 1..Len(Order) : Order'[k].doc = Order[k].doc ]_vars

\* An order of one p1 at price 100 is stored, p1 has been deleted and a
\* further order has been stored after it.
C15_Witness ==
  /\ Len(Order) >= 2
  /\ Order[1].doc.products = <<[productId |-> "p1", quantity |-> 1]>>
  /\ Order[1].doc.total = 100
  /\ "p1" \notin DOMAIN Product

\* ---------------------------------------------------------------- C16
\* C16 (as claimed): every stored order has a total >= 0, whatever request
\* the system accepted for it.
C16_TotalNonNegative ==
  \A k \in 1..Len(Order) : Order[k].doc.total >= 0

\* ---------------------------------------------------------------- C17
\* The events request r has emitted, in emission order.
EventsOf(r) == SelectSeq(io, LAMBDA e : e.by = r)

\* C17: the line items of a request are processed one after another in the
\* order given: at every moment the request has emitted one event for each
\* of the i - 1 items before the one it has reached, on those items' rooms in
\* that order, and it has read the price of no item beyond the one it has
\* reached.  Processing stops at the first item that fails: once the request
\* is answered 400 it takes no further step, emits nothing more, and a step
\* in which no other request acts changes no product.
C17_SequentialStopAtFirstFailure ==
  /\ [](\A r \in Begun :
          LET ev == EventsOf(r)
          IN  /\ req[r].i <= Len(req[r].products) + 1
              /\ Len(ev) = req[r].i - 1
              /\ \A k \in 1..Len(ev) : ev[k].room = req[r].products[k].productId
              /\ Len(req[r].prices) \in {req[r].i - 1, req[r].i}
              /\ req[r].status = 400 => req[r].i = Len(req[r].products))
  /\ [][\A r \in Reqs :
          req[r].status = 400
            => /\ req'[r] = req[r]
               /\ io' # io => io'[Len(io')].by # r
               /\ ( /\ \A q \in Reqs \ {r} : req'[q] = req[q]
                    /\ puts' = puts /\ put' = put )
                    => Product' = Product]_vars

\* A request was answered 400 at its second line item after its first, of a
\* positive quantity, was processed and notified.
C17_Witness ==
  \E r \in Reqs :
    /\ req[r].status = 400
    /\ req[r].i = 2
    /\ req[r].products[1].quantity > 0
    /\ Len(EventsOf(r)) = 1

\* ---------------------------------------------------------------- C18
\* The quantity of p in the first n stored orders.
RECURSIVE Persisted(_, _)
Persisted(p, n) ==
  IF n = 0 THEN 0
  ELSE QtySum(Order[n].doc.products, p, Len(Order[n].doc.products))
         + Persisted(p, n - 1)

\* C18 (as claimed): with no request in flight and no administrative update,
\* each product's initial stock minus its stock is the quantity of it in the
\* stored orders; stated for a request of positive quantities and no coupon
\* that ran alone and was not rejected.
C18_StockConservation ==
  \A r \in Reqs :
    ( /\ Alone(r) /\ Finished(r) /\ Positive(r)
      /\ req[r].status # 400 /\ req[r].err # "ReferenceError" )
    => \A p \in ProductIds :
         InitStock(p) - Product[p].stock = Persisted(p, Len(Order))

\* ---------------------------------------------------------------- C19
\* The events emitted on the room of product p, in emission order.
EventsOn(p) == SelectSeq(io, LAMBDA e : e.room = p)

\* C19 (as claimed): with no request in flight, the last event on a
\* product's room carries the product's stored stock, whatever the
\* interleaving of orders and of PUT /products/:id/stock; stated for runs of
\* answered orders of positive quantities and of PUT /products/:id/stock on
\* stored products, with no other administrative request.
C19_LastEventIsStoredStock ==
  ( /\ Quiescent
    /\ \A r \in Begun : Positive(r) /\ req[r].pc = "done"
    /\ puts = Len(PutEvents) )
  => \A p \in ProductIds :
       LET ev == EventsOn(p)
       IN  ev # <<>> => ev[Len(ev)].stock = Product[p].stock

====
